---- MODULE Spec2Model ----
(***************************************************************************)
(* Booking admin portal: the bookings REST routes                          *)
(* (server/src/routes/bookings.ts) over the bookings table.                *)
(*                                                                         *)
(* A request handler is an async function: every `await prisma...` is a    *)
(* point where another handler may run, so each database call is one step  *)
(* of the handler.  Timestamps are the integers new Date(iso).getTime()    *)
(* yields, taken from a small range; a booking row is [id, startTime,      *)
(* endTime].  An absent optional body field is NoTime.                     *)
(*                                                                         *)
(* The conflict query reads startTime and endTime only; status, notes and  *)
(* the link rows (bookings_on_users, bookings_on_services) do not enter it *)
(* and are left out of the rows here.  The status column and the link      *)
(* tables are variables of their own, written by the handlers of the       *)
(* second part (SpecLinks, SpecCatalog), which also holds the DELETE       *)
(* routes of users and services.                                           *)
(***************************************************************************)
EXTENDS Integers, FiniteSets

\* ---- bounds -------------------------------------------------------------
MaxTime == 3
MaxId == 2
MaxClock == 2

Times == 0..MaxTime
Ids == 1..MaxId
Procs == {"c1", "c2"}

NoTime == 0 - 1
OptTimes == Times \cup {NoTime}

VARIABLES
    bookings,   \* rows of table "bookings": set of [id, startTime, endTime]
    nextId,     \* number of ids handed out so far (ids are never reused)
    pc,         \* pc[p]: where the handler serving connection p stands
    req,        \* req[p]: the request p's handler is serving / has served
    resp,       \* resp[p]: the response sent on p (status 0: none yet)
    users,              \* ids of the rows of table "users"
    userEmail,          \* column "email" of "users": [id, email]
    refreshToken,       \* column "refreshToken" of "users", where not null:
                        \* [id, token]
    clock,              \* the server's time in seconds (iat of signed tokens)
    issued,             \* refresh tokens sent to clients in login responses
    services,           \* ids of the rows of table "services"
    bookingsOnUsers,    \* rows of "bookings_on_users": [bookingId, userId]
    bookingsOnServices, \* rows of "bookings_on_services": [bookingId, serviceId]
    bookingStatus,      \* column "status" of "bookings": [bookingId, status]
    body,       \* body[p]: the userIds and serviceIds p's handler holds
    localStorage,       \* the browser's items "token" and "refreshToken"
    call        \* call[c]: one invocation of the client's apiRequest

authVars == <<refreshToken, clock, issued>>

clientVars == <<localStorage, call>>

linkVars == <<users, userEmail, authVars, services, bookingsOnUsers,
              bookingsOnServices, bookingStatus, body, clientVars>>

vars == <<bookings, nextId, pc, req, resp, users, userEmail, refreshToken,
          clock, issued, services, bookingsOnUsers,
          bookingsOnServices, bookingStatus, body, localStorage, call>>

UserIds == {"u1", "u2"}
ServiceIds == {"s1", "s2"}

Body(U, V) == [userIds |-> U, serviceIds |-> V]
NoBody == Body({}, {})

UserRow(id, em) == [id |-> id, email |-> em]

NoReq == [op |-> "none", id |-> 0, startTime |-> NoTime, endTime |-> NoTime]
NoResp == [status |-> 0, id |-> 0]

Row(id, s, e) == [id |-> id, startTime |-> s, endTime |-> e]
Request(op, id, s, e) == [op |-> op, id |-> id, startTime |-> s, endTime |-> e]
Response(status, id) == [status |-> status, id |-> id]

\* ---- the conflict query -------------------------------------------------

\* a mutant: the first range condition alone
ConflictWhereStartOnly(b, S, E) ==
    b.startTime < E /\ b.startTime >= S

\* a mutant: gt/lt on all four comparisons
ConflictWhereStrict(b, S, E) ==
    \/ (b.startTime < E /\ b.startTime > S)
    \/ (b.endTime > S /\ b.endTime < E)

\* a mutant: the candidate's ends tested against the row's range
ConflictWhereSwapped(b, S, E) ==
    \/ (S < b.endTime /\ S >= b.startTime)
    \/ (E > b.startTime /\ E <= b.endTime)

\* a mutant: lte/gte on all four comparisons
ConflictWhereClosed(b, S, E) ==
    \/ (b.startTime <= E /\ b.startTime >= S)
    \/ (b.endTime >= S /\ b.endTime <= E)

\* the `OR: [...]` of the where clause, for one row b and candidate S, E
ConflictWhere(b, S, E) ==
    \/ (b.startTime < E /\ b.startTime >= S)
    \/ (b.endTime > S /\ b.endTime <= E)

\* a mutant: the query skips rows whose status is CANCELLED
CreateConflictsActive(rows, S, E) ==
    {b \in rows : /\ ConflictWhere(b, S, E)
                  /\ [bookingId |-> b.id, status |-> "CANCELLED"]
                         \notin bookingStatus}

\* prisma.booking.findFirst of POST /: the rows the where clause matches
CreateConflicts(rows, S, E) ==
    {b \in rows : ConflictWhere(b, S, E)}

\* prisma.booking.findFirst of PUT /:id: as above, with id: { not: id }
UpdateConflicts(rows, id, S, E) ==
    {b \in rows : b.id # id /\ ConflictWhere(b, S, E)}

\* prisma.booking.findUnique({ where: { id } })
FindUnique(rows, id) == {b \in rows : b.id = id}

\* a mutant: `if (startTime || endTime)`
BothTimesAny(r) == r.startTime # NoTime \/ r.endTime # NoTime

\* `if (startTime && endTime)`: both fields present in the body
BothTimes(r) == r.startTime # NoTime /\ r.endTime # NoTime

\* updateData of PUT /:id applied to row b
ApplyUpdate(b, r) ==
    Row(b.id,
        IF r.startTime # NoTime THEN r.startTime ELSE b.startTime,
        IF r.endTime # NoTime THEN r.endTime ELSE b.endTime)

\* the client: concurrent invocations of apiRequest in one browser tab
Calls == {"a", "b"}

\* localStorage.getItem gives null for an item that is not there
NoItem == "null"
NoItems == [token |-> NoItem, refreshToken |-> NoItem]

\* what fetch resolved to: NoResponse before it has, Rejected when it threw
NoResponse == [status |-> 0, error |-> "none"]
Rejected == [status |-> 0 - 1, error |-> "TypeError"]

\* an invocation: where it stands, the Authorization header of the request
\* it sent last, how often it sent the original and the refresh request, the
\* value of its variable response, the refreshed token it holds, its outcome
Invocation(at, authorization, sent, refreshes, response, refreshData, outcome) ==
    [pc |-> at, authorization |-> authorization, sent |-> sent,
     refreshes |-> refreshes, response |-> response,
     refreshData |-> refreshData, outcome |-> outcome]

IdleCall == Invocation("idle", NoItem, 0, 0, NoResponse, NoItem, "none")

\* ---- handlers -----------------------------------------------------------

Init ==
    /\ bookings = {}
    /\ nextId = 0
    /\ pc = [p \in Procs |-> "idle"]
    /\ req = [p \in Procs |-> NoReq]
    /\ resp = [p \in Procs |-> NoResp]
    /\ users = UserIds
    /\ userEmail = {UserRow("u1", "john@x.io"), UserRow("u2", "jane@x.io")}
    /\ refreshToken = {}
    /\ clock = 0
    /\ issued = {}
    /\ services = ServiceIds
    /\ bookingsOnUsers = {}
    /\ bookingsOnServices = {}
    /\ bookingStatus = {}
    /\ body = [p \in Procs |-> NoBody]
    /\ localStorage = NoItems
    /\ call = [c \in Calls |-> IdleCall]

Finish(p, status, id) ==
    /\ pc' = [pc EXCEPT ![p] = "done"]
    /\ resp' = [resp EXCEPT ![p] = Response(status, id)]

\* number of creations that passed the check and have not inserted yet
Inserting == Cardinality({q \in Procs : pc[q] = "insert"})

\* a mutant: findMany in place of findFirst; its result [] is truthy
CreateBeginFindMany(p, S, E) ==
    /\ pc[p] = "idle"
    /\ req' = [req EXCEPT ![p] = Request("create", 0, S, E)]
    /\ Finish(p, 409, 0)
    /\ UNCHANGED <<bookings, nextId>>

\* a mutant: a validator rejecting startTime >= endTime with 400
CreateBeginValidated(p, S, E) ==
    /\ pc[p] = "idle"
    /\ CreateConflicts(bookings, S, E) # {} \/ nextId + Inserting < MaxId
    /\ req' = [req EXCEPT ![p] = Request("create", 0, S, E)]
    /\ IF S >= E
       THEN Finish(p, 400, 0)
       ELSE IF CreateConflicts(bookings, S, E) # {}
            THEN Finish(p, 409, 0)
            ELSE /\ pc' = [pc EXCEPT ![p] = "insert"]
                 /\ resp' = resp
    /\ UNCHANGED <<bookings, nextId>>

\* POST /: the conflict query and the 409 it may answer
CreateBegin(p, S, E) ==
    /\ pc[p] = "idle"
    /\ CreateConflicts(bookings, S, E) # {} \/ nextId + Inserting < MaxId
    /\ req' = [req EXCEPT ![p] = Request("create", 0, S, E)]
    /\ IF CreateConflicts(bookings, S, E) # {}
       THEN Finish(p, 409, 0)
       ELSE /\ pc' = [pc EXCEPT ![p] = "insert"]
            /\ resp' = resp
    /\ UNCHANGED <<bookings, nextId>>

\* a mutant: the insert repeats the conflict query (as under a transaction)
CreateInsertRecheck(p) ==
    /\ pc[p] = "insert"
    /\ IF CreateConflicts(bookings, req[p].startTime, req[p].endTime) # {}
       THEN /\ Finish(p, 409, 0)
            /\ UNCHANGED <<bookings, nextId>>
       ELSE /\ bookings' = bookings \cup
                   {Row(nextId + 1, req[p].startTime, req[p].endTime)}
            /\ nextId' = nextId + 1
            /\ Finish(p, 201, nextId + 1)
    /\ UNCHANGED req

\* POST /: prisma.booking.create and the 201
CreateInsert(p) ==
    /\ pc[p] = "insert"
    /\ bookings' = bookings \cup
           {Row(nextId + 1, req[p].startTime, req[p].endTime)}
    /\ nextId' = nextId + 1
    /\ Finish(p, 201, nextId + 1)
    /\ UNCHANGED req

\* PUT /:id: findUnique and the 404
UpdateBegin(p, id, S, E) ==
    /\ pc[p] = "idle"
    /\ req' = [req EXCEPT ![p] = Request("update", id, S, E)]
    /\ IF FindUnique(bookings, id) = {}
       THEN Finish(p, 404, 0)
       ELSE /\ pc' = [pc EXCEPT ![p] = "ucheck"]
            /\ resp' = resp
    /\ UNCHANGED <<bookings, nextId>>

\* PUT /:id: the conflict query, run only when both times are given
UpdateCheck(p) ==
    /\ pc[p] = "ucheck"
    /\ IF /\ BothTimes(req[p])
          /\ UpdateConflicts(bookings, req[p].id,
                             req[p].startTime, req[p].endTime) # {}
       THEN Finish(p, 409, 0)
       ELSE /\ pc' = [pc EXCEPT ![p] = "uwrite"]
            /\ resp' = resp
    /\ UNCHANGED <<bookings, nextId, req>>

\* a mutant: updateMany without the where: every row takes the new fields
UpdateWriteAll(p) ==
    /\ pc[p] = "uwrite"
    /\ IF FindUnique(bookings, req[p].id) = {}
       THEN /\ Finish(p, 500, 0)
            /\ bookings' = bookings
       ELSE /\ bookings' = {ApplyUpdate(b, req[p]) : b \in bookings}
            /\ Finish(p, 200, req[p].id)
    /\ UNCHANGED <<nextId, req>>

\* PUT /:id: prisma.booking.update (throws when the row is gone: 500)
UpdateWrite(p) ==
    /\ pc[p] = "uwrite"
    /\ IF FindUnique(bookings, req[p].id) = {}
       THEN /\ Finish(p, 500, 0)
            /\ bookings' = bookings
       ELSE /\ bookings' = {IF b.id = req[p].id THEN ApplyUpdate(b, req[p])
                                                ELSE b : b \in bookings}
            /\ Finish(p, 200, req[p].id)
    /\ UNCHANGED <<nextId, req>>

\* DELETE /:id: findUnique and the 404
DeleteBegin(p, id) ==
    /\ pc[p] = "idle"
    /\ req' = [req EXCEPT ![p] = Request("delete", id, NoTime, NoTime)]
    /\ IF FindUnique(bookings, id) = {}
       THEN Finish(p, 404, 0)
       ELSE /\ pc' = [pc EXCEPT ![p] = "ddelete"]
            /\ resp' = resp
    /\ UNCHANGED <<bookings, nextId>>

\* DELETE /:id: prisma.booking.delete (throws when the row is gone: 500)
DeleteRow(p) ==
    /\ pc[p] = "ddelete"
    /\ IF FindUnique(bookings, req[p].id) = {}
       THEN /\ Finish(p, 500, 0)
            /\ bookings' = bookings
       ELSE /\ bookings' = bookings \ FindUnique(bookings, req[p].id)
            /\ Finish(p, 200, req[p].id)
    /\ UNCHANGED <<nextId, req>>

\* the client has its response; the connection serves the next request
Return(p) ==
    /\ pc[p] = "done"
    /\ pc' = [pc EXCEPT ![p] = "idle"]
    /\ req' = [req EXCEPT ![p] = NoReq]
    /\ resp' = [resp EXCEPT ![p] = NoResp]
    /\ UNCHANGED <<bookings, nextId>>

\* ---- specifications -----------------------------------------------------

\* Spec: requests arrive on one connection and are handled one at a time,
\* each handler running to its response before the next request is read.
\* Spec, SpecRace and SpecAtomic follow the bookings table alone: the
\* requests' relation arrays and status are those of the second part.
Next ==
    \E p \in {"c1"} :
        \/ (\E S \in Times, E \in Times : CreateBegin(p, S, E))
               /\ UNCHANGED linkVars
        \/ CreateInsert(p) /\ UNCHANGED linkVars
        \/ (\E id \in Ids, S \in OptTimes, E \in OptTimes :
               UpdateBegin(p, id, S, E)) /\ UNCHANGED linkVars
        \/ UpdateCheck(p) /\ UNCHANGED linkVars
        \/ UpdateWrite(p) /\ UNCHANGED linkVars
        \/ (\E id \in Ids : DeleteBegin(p, id)) /\ UNCHANGED linkVars
        \/ DeleteRow(p) /\ UNCHANGED linkVars
        \/ Return(p) /\ UNCHANGED linkVars

Spec == Init /\ [][Next]_vars

\* SpecRace: one creation request on each connection, the two handlers
\* interleaving at their awaits as the source lets them.
NextRace ==
    \E p \in Procs :
        \/ (\E S \in Times, E \in Times : CreateBegin(p, S, E))
               /\ UNCHANGED linkVars
        \/ CreateInsert(p) /\ UNCHANGED linkVars

SpecRace == Init /\ [][NextRace]_vars

\* SpecAtomic: creation requests on both connections, the check-then-insert
\* of a creation running with no step of another handler in between.
NoneInFlight(p) == \A q \in Procs \ {p} : pc[q] \in {"idle", "done"}

NextAtomic ==
    \E p \in Procs :
        \/ NoneInFlight(p) /\ UNCHANGED linkVars
               /\ \E S \in Times, E \in Times : CreateBegin(p, S, E)
        \/ NoneInFlight(p) /\ UNCHANGED linkVars /\ CreateInsert(p)
        \/ NoneInFlight(p) /\ UNCHANGED linkVars /\ Return(p)

SpecAtomic == Init /\ [][NextAtomic]_vars

\* ---- relations, status, users and services ------------------------------

\* Two adjacent one-hour slots, the request intervals of this part.
Slots == {<<0, 1>>, <<1, 2>>}
StatusValues == {"CONFIRMED", "CANCELLED"}
NoStatus == "absent"

UserLink(id, u) == [bookingId |-> id, userId |-> u]
ServiceLink(id, s) == [bookingId |-> id, serviceId |-> s]
StatusOf(id, st) == [bookingId |-> id, status |-> st]

\* the link rows of a booking
UsersOf(id) == {l.userId : l \in {k \in bookingsOnUsers : k.bookingId = id}}
ServicesOf(id) ==
    {l.serviceId : l \in {k \in bookingsOnServices : k.bookingId = id}}

\* POST / holds its userIds and serviceIds from the start.  An optional
\* field of PUT /:id, and the status of either request, is drawn at the step
\* that first reads it: no earlier step of the handler depends on it.

\* POST /: the conflict query and the 409 it may answer
LCreateBegin(p, S, E, U, V) ==
    /\ CreateBegin(p, S, E)
    /\ body' = [body EXCEPT ![p] = Body(U, V)]
    /\ UNCHANGED <<users, userEmail, authVars, services, bookingsOnUsers, bookingsOnServices,
                   bookingStatus, clientVars>>

\* POST /: prisma.booking.create with the nested creates of its user and
\* service links, one statement; a userId or serviceId without its row
\* violates the foreign key, nothing is stored and the catch answers 500
LCreateInsert(p, st) ==
    /\ pc[p] = "insert"
    /\ IF body[p].userIds \subseteq users
          /\ body[p].serviceIds \subseteq services
       THEN /\ CreateInsert(p)
            /\ bookingsOnUsers' = bookingsOnUsers \cup
                   {UserLink(nextId + 1, u) : u \in body[p].userIds}
            /\ bookingsOnServices' = bookingsOnServices \cup
                   {ServiceLink(nextId + 1, s) : s \in body[p].serviceIds}
            /\ bookingStatus' = bookingStatus \cup {StatusOf(nextId + 1, st)}
       ELSE /\ Finish(p, 500, 0)
            /\ UNCHANGED <<bookings, nextId, req, bookingsOnUsers,
                           bookingsOnServices, bookingStatus>>
    /\ UNCHANGED <<users, userEmail, authVars, services, body, clientVars>>

\* PUT /:id: findUnique and the 404
LUpdateBegin(p, id, S, E) ==
    /\ UpdateBegin(p, id, S, E)
    /\ UNCHANGED linkVars

\* a mutant: the relation rows are cleared before the conflict query
LUpdateCheckClearing(p) ==
    /\ UpdateCheck(p)
    /\ bookingsOnUsers' = {l \in bookingsOnUsers : l.bookingId # req[p].id}
    /\ UNCHANGED <<users, userEmail, authVars, services, bookingsOnServices, bookingStatus, body, clientVars>>

\* PUT /:id: the conflict query, run only when both times are given
LUpdateCheck(p) ==
    /\ UpdateCheck(p)
    /\ UNCHANGED linkVars

\* PUT /:id: prisma.booking.update with updateData (throws when the row is
\* gone: 500); the handler goes on to the relations
LUpdateWrite(p, st) ==
    /\ pc[p] = "uwrite"
    /\ IF FindUnique(bookings, req[p].id) = {}
       THEN /\ Finish(p, 500, 0)
            /\ UNCHANGED <<bookings, bookingStatus>>
       ELSE /\ bookings' = {IF b.id = req[p].id THEN ApplyUpdate(b, req[p])
                                                ELSE b : b \in bookings}
            /\ bookingStatus' =
                   IF st = NoStatus
                   THEN bookingStatus
                   ELSE {x \in bookingStatus : x.bookingId # req[p].id}
                            \cup {StatusOf(req[p].id, st)}
            /\ pc' = [pc EXCEPT ![p] = "uusers"]
            /\ resp' = resp
    /\ UNCHANGED <<nextId, req, users, userEmail, authVars, services, bookingsOnUsers,
                   bookingsOnServices, body, clientVars>>

\* PUT /:id: `if (userIds)` with no userIds in the body
LUsersAbsent(p) ==
    /\ pc[p] = "uusers"
    /\ pc' = [pc EXCEPT ![p] = "uservices"]
    /\ UNCHANGED <<bookings, nextId, req, resp>>
    /\ UNCHANGED linkVars

\* a mutant: the deleteMany takes effect only with the createMany, as in a
\* transaction
LUsersDeleteManyDeferred(p, U) ==
    /\ pc[p] = "uusers"
    /\ body' = [body EXCEPT ![p].userIds = U]
    /\ pc' = [pc EXCEPT ![p] = "uuserscreate"]
    /\ UNCHANGED <<bookings, nextId, req, resp, users, userEmail, authVars, services,
                   bookingsOnUsers, bookingsOnServices, bookingStatus, clientVars>>

\* PUT /:id: `if (userIds)` with an array (an empty one is truthy) and
\* bookingsOnUsers.deleteMany
LUsersDeleteMany(p, U) ==
    /\ pc[p] = "uusers"
    /\ bookingsOnUsers' = {l \in bookingsOnUsers : l.bookingId # req[p].id}
    /\ body' = [body EXCEPT ![p].userIds = U]
    /\ pc' = [pc EXCEPT ![p] = "uuserscreate"]
    /\ UNCHANGED <<bookings, nextId, req, resp, users, userEmail, authVars, services,
                   bookingsOnServices, bookingStatus, clientVars>>

\* PUT /:id: bookingsOnUsers.createMany, one statement; a missing user or
\* booking row violates a foreign key and the catch answers 500
LUsersCreateMany(p) ==
    /\ pc[p] = "uuserscreate"
    /\ body' = [body EXCEPT ![p].userIds = {}]
    /\ IF body[p].userIds = {} \/ (body[p].userIds \subseteq users
                                    /\ FindUnique(bookings, req[p].id) # {})
       THEN /\ bookingsOnUsers' = bookingsOnUsers \cup
                   {UserLink(req[p].id, u) : u \in body[p].userIds}
            /\ pc' = [pc EXCEPT ![p] = "uservices"]
            /\ resp' = resp
       ELSE /\ Finish(p, 500, 0)
            /\ bookingsOnUsers' = bookingsOnUsers
    /\ UNCHANGED <<bookings, nextId, req, users, userEmail, authVars, services,
                   bookingsOnServices, bookingStatus, clientVars>>

\* PUT /:id: `if (serviceIds)` with no serviceIds in the body
LServicesAbsent(p) ==
    /\ pc[p] = "uservices"
    /\ pc' = [pc EXCEPT ![p] = "ufetch"]
    /\ UNCHANGED <<bookings, nextId, req, resp>>
    /\ UNCHANGED linkVars

\* PUT /:id: `if (serviceIds)` and bookingsOnServices.deleteMany
LServicesDeleteMany(p, V) ==
    /\ pc[p] = "uservices"
    /\ bookingsOnServices' =
           {l \in bookingsOnServices : l.bookingId # req[p].id}
    /\ body' = [body EXCEPT ![p].serviceIds = V]
    /\ pc' = [pc EXCEPT ![p] = "uservicescreate"]
    /\ UNCHANGED <<bookings, nextId, req, resp, users, userEmail, authVars, services,
                   bookingsOnUsers, bookingStatus, clientVars>>

\* PUT /:id: bookingsOnServices.createMany
LServicesCreateMany(p) ==
    /\ pc[p] = "uservicescreate"
    /\ body' = [body EXCEPT ![p].serviceIds = {}]
    /\ IF body[p].serviceIds = {}
          \/ (body[p].serviceIds \subseteq services
              /\ FindUnique(bookings, req[p].id) # {})
       THEN /\ bookingsOnServices' = bookingsOnServices \cup
                   {ServiceLink(req[p].id, s) : s \in body[p].serviceIds}
            /\ pc' = [pc EXCEPT ![p] = "ufetch"]
            /\ resp' = resp
       ELSE /\ Finish(p, 500, 0)
            /\ bookingsOnServices' = bookingsOnServices
    /\ UNCHANGED <<bookings, nextId, req, users, userEmail, authVars, services,
                   bookingsOnUsers, bookingStatus, clientVars>>

\* PUT /:id: the final findUnique and res.json
LUpdateFetch(p) ==
    /\ pc[p] = "ufetch"
    /\ Finish(p, 200, req[p].id)
    /\ UNCHANGED <<bookings, nextId, req>>
    /\ UNCHANGED linkVars

\* DELETE /:id: findUnique and the 404
LDeleteBegin(p, id) ==
    /\ DeleteBegin(p, id)
    /\ UNCHANGED linkVars

\* DELETE /:id: prisma.booking.delete; the foreign keys cascade to the links
LDeleteRow(p) ==
    /\ DeleteRow(p)
    /\ bookingsOnUsers' = {l \in bookingsOnUsers : l.bookingId # req[p].id}
    /\ bookingsOnServices' =
           {l \in bookingsOnServices : l.bookingId # req[p].id}
    /\ bookingStatus' = {x \in bookingStatus : x.bookingId # req[p].id}
    /\ UNCHANGED <<users, userEmail, authVars, services, body, clientVars>>

\* DELETE /users/:id: findUnique and the 404
UserDeleteBegin(p, u) ==
    /\ pc[p] = "idle"
    /\ req' = [req EXCEPT ![p] = Request("deleteUser", u, NoTime, NoTime)]
    /\ IF u \notin users
       THEN Finish(p, 404, 0)
       ELSE /\ pc' = [pc EXCEPT ![p] = "userdelete"]
            /\ resp' = resp
    /\ UNCHANGED <<bookings, nextId>>
    /\ UNCHANGED linkVars

\* DELETE /users/:id: prisma.user.delete (throws when the row is gone: 500);
\* the foreign key cascades to the user's booking links
UserDeleteRow(p) ==
    /\ pc[p] = "userdelete"
    /\ IF req[p].id \notin users
       THEN /\ Finish(p, 500, 0)
            /\ UNCHANGED <<users, userEmail, authVars, bookingsOnUsers, clientVars>>
       ELSE /\ users' = users \ {req[p].id}
            /\ userEmail' = {r \in userEmail : r.id # req[p].id}
            /\ refreshToken' = {r \in refreshToken : r.id # req[p].id}
            /\ UNCHANGED <<clock, issued, clientVars>>
            /\ bookingsOnUsers' =
                   {l \in bookingsOnUsers : l.userId # req[p].id}
            /\ Finish(p, 200, 0)
    /\ UNCHANGED <<bookings, nextId, req, services, bookingsOnServices,
                   bookingStatus, body>>

\* DELETE /services/:id: findUnique and the 404
ServiceDeleteBegin(p, s) ==
    /\ pc[p] = "idle"
    /\ req' = [req EXCEPT ![p] = Request("deleteService", s, NoTime, NoTime)]
    /\ IF s \notin services
       THEN Finish(p, 404, 0)
       ELSE /\ pc' = [pc EXCEPT ![p] = "scheck"]
            /\ resp' = resp
    /\ UNCHANGED <<bookings, nextId>>
    /\ UNCHANGED linkVars

\* a mutant: no usage check before the delete
ServiceDeleteCheckSkipped(p) ==
    /\ pc[p] = "scheck"
    /\ pc' = [pc EXCEPT ![p] = "sdelete"]
    /\ UNCHANGED <<bookings, nextId, req, resp>>
    /\ UNCHANGED linkVars

\* DELETE /services/:id: bookingsOnServices.findFirst and the 400
ServiceDeleteCheck(p) ==
    /\ pc[p] = "scheck"
    /\ IF \E l \in bookingsOnServices : l.serviceId = req[p].id
       THEN Finish(p, 400, 0)
       ELSE /\ pc' = [pc EXCEPT ![p] = "sdelete"]
            /\ resp' = resp
    /\ UNCHANGED <<bookings, nextId, req>>
    /\ UNCHANGED linkVars

\* a mutant: the foreign key is ON DELETE RESTRICT, a linked service's delete
\* throws
ServiceDeleteRowRestrict(p) ==
    /\ pc[p] = "sdelete"
    /\ IF \/ req[p].id \notin services
          \/ \E l \in bookingsOnServices : l.serviceId = req[p].id
       THEN /\ Finish(p, 500, 0)
            /\ UNCHANGED <<services, bookingsOnServices>>
       ELSE /\ services' = services \ {req[p].id}
            /\ bookingsOnServices' = bookingsOnServices
            /\ Finish(p, 200, 0)
    /\ UNCHANGED <<bookings, nextId, req, users, userEmail, authVars, bookingsOnUsers,
                   bookingStatus, body, clientVars>>

\* DELETE /services/:id: prisma.service.delete (throws when the row is gone:
\* 500); the foreign key cascades to the service's booking links
ServiceDeleteRow(p) ==
    /\ pc[p] = "sdelete"
    /\ IF req[p].id \notin services
       THEN /\ Finish(p, 500, 0)
            /\ UNCHANGED <<services, bookingsOnServices>>
       ELSE /\ services' = services \ {req[p].id}
            /\ bookingsOnServices' =
                   {l \in bookingsOnServices : l.serviceId # req[p].id}
            /\ Finish(p, 200, 0)
    /\ UNCHANGED <<bookings, nextId, req, users, userEmail, authVars, bookingsOnUsers,
                   bookingStatus, body, clientVars>>

\* the client has its response; the connection serves the next request
LReturn(p) ==
    /\ Return(p)
    /\ body' = [body EXCEPT ![p] = NoBody]
    /\ UNCHANGED <<users, userEmail, authVars, services, bookingsOnUsers, bookingsOnServices,
                   bookingStatus, clientVars>>

\* the relation arrays the validators let through: userIds and serviceIds of
\* POST / are isArray({ min: 1 }), those of PUT /:id are isArray()
CreateUserIds == (SUBSET UserIds) \ {{}}
CreateServiceIds == (SUBSET ServiceIds) \ {{}}
UpdateUserIds == SUBSET UserIds
UpdateServiceIds == SUBSET ServiceIds

\* SpecLinks: booking requests with their relations and status, one
\* connection, one request at a time; users and services stay registered.
NextLinks ==
    \E p \in {"c1"} :
        \/ \E sl \in Slots, U \in CreateUserIds, V \in CreateServiceIds :
               LCreateBegin(p, sl[1], sl[2], U, V)
        \/ \E st \in StatusValues : LCreateInsert(p, st)
        \/ \E id \in Ids, sl \in Slots \cup {<<NoTime, NoTime>>} :
               LUpdateBegin(p, id, sl[1], sl[2])
        \/ LUpdateCheck(p)
        \/ \E st \in StatusValues \cup {NoStatus} : LUpdateWrite(p, st)
        \/ LUsersAbsent(p)
        \/ \E U \in UpdateUserIds : LUsersDeleteMany(p, U)
        \/ LUsersCreateMany(p)
        \/ LServicesAbsent(p)
        \/ \E V \in UpdateServiceIds : LServicesDeleteMany(p, V)
        \/ LServicesCreateMany(p)
        \/ LUpdateFetch(p)
        \/ \E id \in Ids : LDeleteBegin(p, id)
        \/ LDeleteRow(p)
        \/ LReturn(p)

SpecLinks == Init /\ [][NextLinks]_vars

\* SpecCatalog: SpecLinks' requests (status left to its default) together
\* with the deletion of users and services.
NextCatalog ==
    \E p \in {"c1"} :
        \/ \E sl \in Slots, U \in CreateUserIds, V \in CreateServiceIds :
               LCreateBegin(p, sl[1], sl[2], U, V)
        \/ LCreateInsert(p, "CONFIRMED")
        \/ \E id \in Ids : LUpdateBegin(p, id, NoTime, NoTime)
        \/ LUpdateCheck(p)
        \/ LUpdateWrite(p, NoStatus)
        \/ LUsersAbsent(p)
        \/ \E U \in UpdateUserIds : LUsersDeleteMany(p, U)
        \/ LUsersCreateMany(p)
        \/ LServicesAbsent(p)
        \/ \E V \in UpdateServiceIds : LServicesDeleteMany(p, V)
        \/ LServicesCreateMany(p)
        \/ LUpdateFetch(p)
        \/ \E id \in Ids : LDeleteBegin(p, id)
        \/ LDeleteRow(p)
        \/ \E u \in UserIds : UserDeleteBegin(p, u)
        \/ UserDeleteRow(p)
        \/ \E s \in ServiceIds : ServiceDeleteBegin(p, s)
        \/ ServiceDeleteCheck(p)
        \/ ServiceDeleteRow(p)
        \/ LReturn(p)

SpecCatalog == Init /\ [][NextCatalog]_vars

\* GET /:id: findUnique with its users and services included; the response
\* carries the row and its links as they are at that moment
GetBooking(p, id) ==
    /\ pc[p] = "idle"
    /\ req' = [req EXCEPT ![p] = Request("get", id, NoTime, NoTime)]
    /\ pc' = [pc EXCEPT ![p] = "done"]
    /\ resp' = [resp EXCEPT ![p] =
           IF FindUnique(bookings, id) = {}
           THEN Response(404, 0)
           ELSE LET b == CHOOSE r \in bookings : r.id = id
                IN  [status |-> 200, id |-> id,
                     startTime |-> b.startTime, endTime |-> b.endTime,
                     users |-> UsersOf(id), services |-> ServicesOf(id)]]
    /\ UNCHANGED <<bookings, nextId>>
    /\ UNCHANGED linkVars

\* SpecUpdate: connection c1 creates bookings in the first slot and moves
\* them to the second with new userIds; connection c2 reads bookings and
\* deletes users; the handlers interleave at their awaits.
NextUpdate ==
    \/ \E p \in {"c1"} :
           \/ \E U \in CreateUserIds :
                  LCreateBegin(p, 0, 1, U, {"s1"})
           \/ LCreateInsert(p, "CONFIRMED")
           \/ \E id \in Ids : LUpdateBegin(p, id, 1, 2)
           \/ LUpdateCheck(p)
           \/ LUpdateWrite(p, NoStatus)
           \/ \E U \in UpdateUserIds : LUsersDeleteMany(p, U)
           \/ LUsersCreateMany(p)
           \/ LServicesAbsent(p)
           \/ LUpdateFetch(p)
           \/ LReturn(p)
    \/ \E p \in {"c2"} :
           \/ \E id \in Ids : GetBooking(p, id)
           \/ \E u \in UserIds : UserDeleteBegin(p, u)
           \/ UserDeleteRow(p)
           \/ LReturn(p)

SpecUpdate == Init /\ [][NextUpdate]_vars

\* SpecServiceDelete: connection c1 creates bookings while connection c2
\* deletes services; the handlers interleave at their awaits.
NextServiceDelete ==
    \/ \E p \in {"c1"} :
           \/ \E sl \in Slots, V \in CreateServiceIds :
                  LCreateBegin(p, sl[1], sl[2], {"u1"}, V)
           \/ LCreateInsert(p, "CONFIRMED")
           \/ LReturn(p)
    \/ \E p \in {"c2"} :
           \/ \E s \in ServiceIds : ServiceDeleteBegin(p, s)
           \/ ServiceDeleteCheck(p)
           \/ ServiceDeleteRow(p)
           \/ LReturn(p)

SpecServiceDelete == Init /\ [][NextServiceDelete]_vars

\* ---- users: POST / and PUT /:id -----------------------------------------

\* ids the database hands to new users
NewUserIds == {"u3", "u4"}

\* emails as the client sends them
RawEmails == {"john@x.io", "jane@x.io", "Amy@X.io", "amy@x.io"}

\* body('email').isEmail().normalizeEmail(): lower case
Normalize(raw) == IF raw = "Amy@X.io" THEN "amy@x.io" ELSE raw

UserRequest(op, id, em, old) ==
    [op |-> op, id |-> id, startTime |-> NoTime, endTime |-> NoTime,
     email |-> em, existing |-> old]

\* prisma.user.findUnique({ where: { email } })
FindByEmail(em) == {r \in userEmail : r.email = em}

\* number of user creations that passed the check and have not inserted yet
CreatingUsers == Cardinality({q \in Procs : pc[q] = "usercreate"})

\* POST /users: findUnique by email and the 400
UserCreateBegin(p, raw) ==
    /\ pc[p] = "idle"
    /\ \/ FindByEmail(Normalize(raw)) # {}
       \/ CreatingUsers < Cardinality(NewUserIds \ users)
    /\ req' = [req EXCEPT ![p] = UserRequest("createUser", 0,
                                              Normalize(raw), "")]
    /\ IF FindByEmail(Normalize(raw)) # {}
       THEN Finish(p, 400, 0)
       ELSE /\ pc' = [pc EXCEPT ![p] = "usercreate"]
            /\ resp' = resp
    /\ UNCHANGED <<bookings, nextId>>
    /\ UNCHANGED linkVars

\* a mutant: no unique index on users.email
UserCreateInsertNoIndex(p) ==
    /\ pc[p] = "usercreate"
    /\ LET id == CHOOSE u \in NewUserIds : u \notin users
       IN  /\ users' = users \cup {id}
           /\ userEmail' = userEmail \cup {UserRow(id, req[p].email)}
           /\ Finish(p, 201, 0)
    /\ UNCHANGED <<bookings, nextId, req, services, bookingsOnUsers,
                   bookingsOnServices, bookingStatus, body, authVars, clientVars>>

\* POST /users: prisma.user.create; users_email_key rejects a second row with
\* the email and the catch answers 500
UserCreateInsert(p) ==
    /\ pc[p] = "usercreate"
    /\ IF FindByEmail(req[p].email) # {}
       THEN /\ Finish(p, 500, 0)
            /\ UNCHANGED <<users, userEmail>>
       ELSE LET id == CHOOSE u \in NewUserIds : u \notin users
            IN  /\ users' = users \cup {id}
                /\ userEmail' = userEmail \cup {UserRow(id, req[p].email)}
                /\ Finish(p, 201, 0)
    /\ UNCHANGED <<bookings, nextId, req, services, bookingsOnUsers,
                   bookingsOnServices, bookingStatus, body, authVars, clientVars>>

\* PUT /users/:id: findUnique by id and the 404; the email check is skipped
\* when the email is the one just read
UserUpdateBegin(p, id, raw) ==
    /\ pc[p] = "idle"
    /\ IF id \notin users
       THEN /\ req' = [req EXCEPT ![p] = UserRequest("updateUser", id,
                                                      Normalize(raw), "")]
            /\ Finish(p, 404, 0)
       ELSE LET old == (CHOOSE r \in userEmail : r.id = id).email
            IN  /\ req' = [req EXCEPT ![p] = UserRequest("updateUser", id,
                                                          Normalize(raw), old)]
                /\ pc' = [pc EXCEPT ![p] = IF Normalize(raw) # old
                                           THEN "useremail"
                                           ELSE "userupdate"]
                /\ resp' = resp
    /\ UNCHANGED <<bookings, nextId>>
    /\ UNCHANGED linkVars

\* PUT /users/:id: findUnique by email and the 400
UserUpdateCheck(p) ==
    /\ pc[p] = "useremail"
    /\ IF FindByEmail(req[p].email) # {}
       THEN Finish(p, 400, 0)
       ELSE /\ pc' = [pc EXCEPT ![p] = "userupdate"]
            /\ resp' = resp
    /\ UNCHANGED <<bookings, nextId, req>>
    /\ UNCHANGED linkVars

\* PUT /users/:id: prisma.user.update; a missing row or users_email_key
\* makes it throw and the catch answers 500
UserUpdateWrite(p) ==
    /\ pc[p] = "userupdate"
    /\ IF \/ req[p].id \notin users
          \/ \E r \in FindByEmail(req[p].email) : r.id # req[p].id
       THEN /\ Finish(p, 500, 0)
            /\ userEmail' = userEmail
       ELSE /\ userEmail' = {r \in userEmail : r.id # req[p].id}
                                \cup {UserRow(req[p].id, req[p].email)}
            /\ Finish(p, 200, 0)
    /\ UNCHANGED <<bookings, nextId, req, users, services, bookingsOnUsers,
                   bookingsOnServices, bookingStatus, body, authVars, clientVars>>

\* SpecUsers: user creations and updates on both connections, the handlers
\* interleaving at their awaits.
NextUsers ==
    \E p \in Procs :
        \/ \E raw \in RawEmails : UserCreateBegin(p, raw)
        \/ UserCreateInsert(p)
        \/ \E id \in UserIds \cup NewUserIds, raw \in RawEmails :
               UserUpdateBegin(p, id, raw)
        \/ UserUpdateCheck(p)
        \/ UserUpdateWrite(p)
        \/ LReturn(p)

SpecUsers == Init /\ [][NextUsers]_vars

\* ---- auth: login, refresh, logout ---------------------------------------

\* jwt.sign({ id, email }, secret, { expiresIn: '7d' }): the token is a
\* function of the user and of the second it is signed in (iat); the clock
\* stays far below the seven days of its validity
Token(u, iat) == [id |-> u, iat |-> iat]
NoToken == Token("", 0 - 1)

\* a string jwt.verify rejects
Forged == Token("forged", 0 - 1)

TokenRow(u, tok) == [id |-> u, token |-> tok]

\* users whose password column is null: the hardcoded demo credentials
Passwordless == {"u1"}

AuthRequest(op, id, tok, ok) ==
    [op |-> op, id |-> id, startTime |-> NoTime, endTime |-> NoTime,
     token |-> tok, ok |-> ok]

\* what a client can present: a token from a login response, or anything else
Presentable == issued \cup {Forged}

\* POST /login: findUnique by email and the 401; for a user without password
\* the hardcoded check and the signing of the tokens follow at once
LoginBegin(p, u, ok) ==
    /\ pc[p] = "idle"
    /\ IF u \notin users
       THEN /\ req' = [req EXCEPT ![p] = AuthRequest("login", u, NoToken, ok)]
            /\ Finish(p, 401, 0)
       ELSE IF u \in Passwordless
            THEN IF ok
                 THEN /\ req' = [req EXCEPT ![p] =
                             AuthRequest("login", u, Token(u, clock), ok)]
                      /\ pc' = [pc EXCEPT ![p] = "loginstore"]
                      /\ resp' = resp
                 ELSE /\ req' = [req EXCEPT ![p] =
                             AuthRequest("login", u, NoToken, ok)]
                      /\ Finish(p, 401, 0)
            ELSE /\ req' = [req EXCEPT ![p] =
                        AuthRequest("login", u, NoToken, ok)]
                 /\ pc' = [pc EXCEPT ![p] = "logincompare"]
                 /\ resp' = resp
    /\ UNCHANGED <<bookings, nextId>>
    /\ UNCHANGED linkVars

\* POST /login: bcrypt.compare, the 401, and the signing of the tokens
LoginCompare(p) ==
    /\ pc[p] = "logincompare"
    /\ IF req[p].ok
       THEN /\ req' = [req EXCEPT ![p].token = Token(req[p].id, clock)]
            /\ pc' = [pc EXCEPT ![p] = "loginstore"]
            /\ resp' = resp
       ELSE /\ Finish(p, 401, 0)
            /\ req' = req
    /\ UNCHANGED <<bookings, nextId>>
    /\ UNCHANGED linkVars

\* POST /login: prisma.user.update({ data: { refreshToken } }) and the
\* response carrying the token (throws when the row is gone: 500)
LoginStore(p) ==
    /\ pc[p] = "loginstore"
    /\ IF req[p].id \notin users
       THEN /\ Finish(p, 500, 0)
            /\ UNCHANGED <<refreshToken, issued>>
       ELSE /\ refreshToken' = {r \in refreshToken : r.id # req[p].id}
                                   \cup {TokenRow(req[p].id, req[p].token)}
            /\ issued' = issued \cup {req[p].token}
            /\ Finish(p, 200, 0)
    /\ UNCHANGED <<bookings, nextId, req, clock, users, userEmail, services,
                   bookingsOnUsers, bookingsOnServices, bookingStatus, body, clientVars>>

\* a mutant: the refresh rotates the stored token
RefreshRotating(p, tok) ==
    /\ pc[p] = "idle"
    /\ req' = [req EXCEPT ![p] = AuthRequest("refresh", tok.id, tok, TRUE)]
    /\ IF tok # Forged /\ TokenRow(tok.id, tok) \in refreshToken
       THEN /\ Finish(p, 200, 0)
            /\ refreshToken' = {r \in refreshToken : r.id # tok.id}
                                   \cup {TokenRow(tok.id, Token(tok.id, clock))}
       ELSE /\ Finish(p, 403, 0)
            /\ refreshToken' = refreshToken
    /\ UNCHANGED <<bookings, nextId, clock, issued, users, userEmail, services,
                   bookingsOnUsers, bookingsOnServices, bookingStatus, body, clientVars>>

\* POST /refresh: jwt.verify, findUnique({ id: decoded.id, refreshToken }),
\* the 403 or the new access token
Refresh(p, tok) ==
    /\ pc[p] = "idle"
    /\ req' = [req EXCEPT ![p] = AuthRequest("refresh", tok.id, tok, TRUE)]
    /\ IF tok # Forged /\ TokenRow(tok.id, tok) \in refreshToken
       THEN Finish(p, 200, 0)
       ELSE Finish(p, 403, 0)
    /\ UNCHANGED <<bookings, nextId>>
    /\ UNCHANGED linkVars

\* POST /logout: updateMany({ where: { refreshToken }, data: null })
Logout(p, tok) ==
    /\ pc[p] = "idle"
    /\ req' = [req EXCEPT ![p] = AuthRequest("logout", tok.id, tok, TRUE)]
    /\ refreshToken' = {r \in refreshToken : r.token # tok}
    /\ Finish(p, 200, 0)
    /\ UNCHANGED <<bookings, nextId, clock, issued, users, userEmail, services,
                   bookingsOnUsers, bookingsOnServices, bookingStatus, body, clientVars>>

\* a second passes
Tick ==
    /\ clock < MaxClock
    /\ clock' = clock + 1
    /\ UNCHANGED <<bookings, nextId, pc, req, resp, refreshToken, issued,
                   users, userEmail, services, bookingsOnUsers,
                   bookingsOnServices, bookingStatus, body, clientVars>>

\* SpecAuth: logins, refreshes and logouts on both connections, the handlers
\* interleaving at their awaits.
NextAuth ==
    \/ \E p \in Procs :
           \/ \E u \in UserIds, ok \in BOOLEAN : LoginBegin(p, u, ok)
           \/ LoginCompare(p)
           \/ LoginStore(p)
           \/ \E tok \in Presentable : Refresh(p, tok)
           \/ \E tok \in Presentable : Logout(p, tok)
           \/ LReturn(p)
    \/ Tick

SpecAuth == Init /\ [][NextAuth]_vars

\* ---- the client's apiRequest -------------------------------------------

serverVars == <<bookings, nextId, pc, req, resp, users, userEmail, authVars,
                services, bookingsOnUsers, bookingsOnServices, bookingStatus,
                body>>

AccessTokens == {"t1", "t2"}
RefreshTokens == {"r1"}

Expired == [status |-> 403, error |-> "Invalid or expired token"]

\* the responses a server can give to a request
Responses ==
    {[status |-> 200, error |-> "none"],
     Expired,
     [status |-> 403, error |-> "Access denied"],
     [status |-> 500, error |-> "Internal server error"]}

\* response.ok
Ok(r) == r.status = 200

\* the login of the page stores both tokens
ClientLogin(tok, rtok) ==
    /\ localStorage' = [token |-> tok, refreshToken |-> rtok]
    /\ UNCHANGED call
    /\ UNCHANGED serverVars

\* apiRequest up to its first await: the stored token goes into the
\* Authorization header and the request is sent
ApiRequest(c) ==
    /\ call[c].pc = "idle"
    /\ call' = [call EXCEPT ![c] =
           Invocation("fetch", localStorage.token, 1, 0, NoResponse, NoItem,
                      "none")]
    /\ UNCHANGED localStorage
    /\ UNCHANGED serverVars

\* the catch block: removeAllTokens() and the Error thrown to the caller
Catch(c) ==
    /\ localStorage' = NoItems
    /\ call' = [call EXCEPT ![c].pc = "done", ![c].outcome = "thrown"]

\* the first fetch settles: a rejection leaves apiRequest at once, a 403 has
\* its body read, anything else goes to the final test
FirstResponse(c, r) ==
    /\ call[c].pc = "fetch"
    /\ IF r = Rejected
       THEN call' = [call EXCEPT ![c].pc = "done", ![c].outcome = "thrown"]
       ELSE call' = [call EXCEPT ![c].response = r,
                                 ![c].pc = IF r.status = 403
                                           THEN "errordata" ELSE "settle"]
    /\ UNCHANGED localStorage
    /\ UNCHANGED serverVars

\* the body of the 403 is there: on 'Invalid or expired token' the stored
\* refresh token is read and the refresh request sent, or, with none stored,
\* the Error of line 39 is caught
ErrorData(c) ==
    /\ call[c].pc = "errordata"
    /\ IF call[c].response.error = Expired.error
       THEN IF localStorage.refreshToken = NoItem
            THEN Catch(c)
            ELSE /\ call' = [call EXCEPT
                         ![c].refreshes = call[c].refreshes + 1,
                         ![c].pc = "refresh"]
                 /\ UNCHANGED localStorage
       ELSE /\ call' = [call EXCEPT ![c].pc = "settle"]
            /\ UNCHANGED localStorage
    /\ UNCHANGED serverVars

\* the refresh fetch settles: only an ok response has its body read
RefreshResponse(c, r) ==
    /\ call[c].pc = "refresh"
    /\ IF r # Rejected /\ Ok(r)
       THEN /\ call' = [call EXCEPT ![c].pc = "refreshdata"]
            /\ UNCHANGED localStorage
       ELSE Catch(c)
    /\ UNCHANGED serverVars

\* a mutant: the refreshed token is used for the retry but not stored
RefreshDataUnstored(c, tok, parses) ==
    /\ call[c].pc = "refreshdata"
    /\ IF parses
       THEN /\ UNCHANGED localStorage
            /\ call' = [call EXCEPT ![c].refreshData = tok,
                                    ![c].authorization = tok,
                                    ![c].sent = call[c].sent + 1,
                                    ![c].pc = "retry"]
       ELSE Catch(c)
    /\ UNCHANGED serverVars

\* the body of the refresh response is there: setAuthToken and the retry
\* with the new token in the Authorization header
RefreshData(c, tok, parses) ==
    /\ call[c].pc = "refreshdata"
    /\ IF parses
       THEN /\ localStorage' = [localStorage EXCEPT !.token = tok]
            /\ call' = [call EXCEPT ![c].refreshData = tok,
                                    ![c].authorization = tok,
                                    ![c].sent = call[c].sent + 1,
                                    ![c].pc = "retry"]
       ELSE Catch(c)
    /\ UNCHANGED serverVars

\* the retry settles: its response replaces the first one; a rejection is
\* caught, the fetch standing inside the try block
RetryResponse(c, r) ==
    /\ call[c].pc = "retry"
    /\ IF r = Rejected
       THEN Catch(c)
       ELSE /\ call' = [call EXCEPT ![c].response = r, ![c].pc = "settle"]
            /\ UNCHANGED localStorage
    /\ UNCHANGED serverVars

\* the final test: a response that is not ok is thrown, an ok one returned
Settle(c) ==
    /\ call[c].pc = "settle"
    /\ call' = [call EXCEPT
           ![c].pc = "done",
           ![c].outcome = IF Ok(call[c].response) THEN "returned"
                          ELSE "thrown"]
    /\ UNCHANGED localStorage
    /\ UNCHANGED serverVars

\* the caller has the result
CallReturn(c) ==
    /\ call[c].pc = "done"
    /\ call' = [call EXCEPT ![c] = IdleCall]
    /\ UNCHANGED localStorage
    /\ UNCHANGED serverVars

\* the steps of one invocation that follow an await
Await(c) ==
    \/ \E r \in Responses \cup {Rejected} : FirstResponse(c, r)
    \/ ErrorData(c)
    \/ \E r \in Responses \cup {Rejected} : RefreshResponse(c, r)
    \/ \E tok \in AccessTokens, parses \in BOOLEAN : RefreshData(c, tok, parses)
    \/ \E r \in Responses \cup {Rejected} : RetryResponse(c, r)
    \/ Settle(c)

\* SpecClient: two invocations of apiRequest in one tab, interleaving at
\* their awaits, the server answering anything; every fetch and every body
\* read settles.
NextClient ==
    \/ \E tok \in AccessTokens, rtok \in RefreshTokens : ClientLogin(tok, rtok)
    \/ \E c \in Calls :
           \/ ApiRequest(c)
           \/ Await(c)
           \/ CallReturn(c)

SpecClient ==
    /\ Init
    /\ [][NextClient]_vars
    /\ \A c \in Calls : WF_vars(Await(c))

\* ---- properties ---------------------------------------------------------

\* half-open overlap of row b with [S, E): the reference the claims use
Overlaps(b, S, E) == b.startTime < E /\ S < b.endTime

\* a row of positive duration
Valid(b) == b.startTime < b.endTime

\* the conflict query of p's creation found nothing and p has not yet inserted
CreatePassed(p) == req[p].op = "create" /\ pc[p] = "insert"

\* the conflict query of p's creation found a row: 409
CreateRejected(p) ==
    req[p].op = "create" /\ pc[p] = "done" /\ resp[p].status = 409

\* the conflict query of p's update ran and found nothing
UpdatePassed(p) ==
    req[p].op = "update" /\ pc[p] = "uwrite" /\ BothTimes(req[p])

\* the conflict query of p's update found a row: 409
UpdateRejected(p) ==
    req[p].op = "update" /\ pc[p] = "done" /\ resp[p].status = 409

\* the rows p's conflict query scans: all of them, but the updated one
Scanned(p) ==
    IF req[p].op = "update" THEN {b \in bookings : b.id # req[p].id}
                            ELSE bookings

\* C1: for a candidate [S,E) with S < E and a store whose rows all have
\* start < end, the conflict check of creation (and of update, over the rows
\* other than the updated one) reports a conflict if and only if some such
\* row [s,e) has s < E and S < e.  Under Spec the store is the one the check
\* read for as long as the handler stands right after its check.
C1_ConflictIffOverlap ==
    \A p \in Procs :
        (req[p].startTime < req[p].endTime /\ \A b \in bookings : Valid(b)) =>
            /\ (CreatePassed(p) \/ UpdatePassed(p)) =>
                   ~ \E b \in Scanned(p) :
                         Overlaps(b, req[p].startTime, req[p].endTime)
            /\ (CreateRejected(p) \/ UpdateRejected(p)) =>
                   \E b \in Scanned(p) :
                       Overlaps(b, req[p].startTime, req[p].endTime)

\* C2: with requests handled one at a time from an empty store, no two
\* distinct stored bookings overlap.  Stated here for the rows of positive
\* duration alone, where it already fails.
C2_NoOverlapSerial ==
    \A a \in bookings, b \in bookings :
        (a.id # b.id /\ Valid(a) /\ Valid(b)) =>
            ~ (a.startTime < b.endTime /\ b.startTime < a.endTime)

\* C3: a creation that has passed the conflict check inserts its row and
\* answers 201 whatever other handlers have inserted since the check: nothing
\* between the check and the insert looks at the store again.
C3_InsertWithoutRecheck ==
    [][\A p \in Procs :
          (pc[p] = "insert" /\ pc'[p] # "insert") =>
              /\ resp'[p].status = 201
              /\ Row(resp'[p].id, req[p].startTime, req[p].endTime)
                     \in bookings'
              /\ bookings \subseteq bookings']_vars

\* C3 witness: both concurrent creations answered 201 and their two rows, of
\* positive duration, overlap; each row is one the query of the other request
\* would have matched had it been stored in time.
C3_DoubleBooked ==
    \E a \in bookings, b \in bookings :
        /\ a.id # b.id /\ Valid(a) /\ Valid(b)
        /\ Overlaps(a, b.startTime, b.endTime)
        /\ ConflictWhere(a, b.startTime, b.endTime)
        /\ ConflictWhere(b, a.startTime, a.endTime)
        /\ \A p \in Procs : pc[p] = "done" /\ resp[p].status = 201
        /\ {resp[p].id : p \in Procs} = {a.id, b.id}

\* C4: with check-then-insert atomic, two creation requests for the same
\* interval of positive duration, against a store none of whose other rows
\* overlaps it, end with exactly one answered 201 and the other 409.
C4_ExactlyOneSucceeds ==
    \A p \in Procs, q \in Procs :
        ( /\ p # q
          /\ pc[p] = "done" /\ pc[q] = "done"
          /\ req[p].op = "create" /\ req[q].op = "create"
          /\ req[p].startTime = req[q].startTime
          /\ req[p].endTime = req[q].endTime
          /\ req[p].startTime < req[p].endTime
          /\ \A b \in bookings :
                 b.id \notin {resp[p].id, resp[q].id} =>
                     ~ Overlaps(b, req[p].startTime, req[p].endTime) )
        => {resp[p].status, resp[q].status} = {201, 409}

\* C5: on update the updated booking is left out of the conflict scan: when
\* no other row overlaps the new interval the check reports no conflict and
\* the update is applied, and a different overlapping row is still reported.
\* Stated here for S < E and rows of positive duration, where it already
\* fails.
C5_ExclusionOnUpdate ==
    \A p \in Procs :
        ( /\ req[p].op = "update" /\ BothTimes(req[p])
          /\ req[p].startTime < req[p].endTime
          /\ \A b \in bookings : Valid(b) )
        => /\ UpdateRejected(p) =>
                  \E b \in Scanned(p) :
                      Overlaps(b, req[p].startTime, req[p].endTime)
           /\ UpdatePassed(p) =>
                  ~ \E b \in Scanned(p) :
                        Overlaps(b, req[p].startTime, req[p].endTime)
           /\ (pc[p] = "done" /\ resp[p].status = 200) =>
                  Row(req[p].id, req[p].startTime, req[p].endTime) \in bookings

\* row b and candidate [S, E) touch at a boundary: S = e or E = s
Touches(b, S, E) == S = b.endTime \/ E = b.startTime

\* C6: a candidate [S,E) does not conflict with a stored booking [s,e) when
\* S = e, nor when E = s: a creation is not answered 409 against a store all
\* of whose rows only touch the candidate.
C6_TouchingNoConflict ==
    \A p \in Procs :
        CreateRejected(p) =>
            \E b \in bookings :
                ~ Touches(b, req[p].startTime, req[p].endTime)

\* candidate [S, E) starts inside row b and ends after it: s < S < e < E
StartsInside(b, S, E) ==
    b.startTime < S /\ S < b.endTime /\ b.endTime < E

\* candidate [S, E) starts before row b and ends inside it: S < s < E < e
EndsInside(b, S, E) ==
    S < b.startTime /\ b.startTime < E /\ E < b.endTime

\* C7: a candidate that partially overlaps a stored booking, on either side,
\* is reported as a conflict: no creation passes the check while such a row
\* is stored.
C7_PartialOverlapReported ==
    \A p \in Procs :
        CreatePassed(p) =>
            ~ \E b \in bookings :
                  \/ StartsInside(b, req[p].startTime, req[p].endTime)
                  \/ EndsInside(b, req[p].startTime, req[p].endTime)

\* C7 witness: a creation answered 409 against a store whose only row it
\* partially overlaps, starting inside the row and ending after it.
C7_PartialOverlapRejected ==
    \E p \in Procs, b \in bookings :
        /\ CreateRejected(p)
        /\ bookings = {b}
        /\ StartsInside(b, req[p].startTime, req[p].endTime)

\* C8: for positive-duration intervals A and B, checking candidate A against
\* a store holding only B gives the same result as the conflict query gives
\* for candidate B against a store holding only A.
C8_Symmetric ==
    \A p \in Procs, b \in bookings :
        ( /\ CreatePassed(p) \/ CreateRejected(p)
          /\ bookings = {b}
          /\ Valid(b)
          /\ req[p].startTime < req[p].endTime )
        => ( CreateRejected(p) <=>
             CreateConflicts({Row(0, req[p].startTime, req[p].endTime)},
                             b.startTime, b.endTime) # {} )

\* C9: a creation whose interval of positive duration is identical to that
\* of a stored booking is reported as a conflict: no such creation passes
\* the check.
C9_IdenticalReported ==
    \A p \in Procs :
        (CreatePassed(p) /\ req[p].startTime < req[p].endTime) =>
            ~ \E b \in bookings :
                  /\ b.startTime = req[p].startTime
                  /\ b.endTime = req[p].endTime

\* C9 witness: a creation answered 409 against a store whose only row has
\* the identical interval, of positive duration.
C9_IdenticalRejected ==
    \E p \in Procs, b \in bookings :
        /\ CreateRejected(p)
        /\ bookings = {b}
        /\ b.startTime = req[p].startTime /\ b.endTime = req[p].endTime
        /\ b.startTime < b.endTime

\* C10: against an empty store the conflict check finds nothing, so no
\* creation is answered 409 there, and a creation answered 201 has stored its
\* row with the requested times.
C10_EmptyStoreAccepts ==
    \A p \in Procs :
        /\ CreateRejected(p) => bookings # {}
        /\ (req[p].op = "create" /\ pc[p] = "done" /\ resp[p].status = 201) =>
               Row(resp[p].id, req[p].startTime, req[p].endTime) \in bookings

\* C10 witness: a creation checked against the empty store was answered 201
\* and its row is now the only one stored.
C10_FirstBookingStored ==
    \E p \in Procs :
        /\ req[p].op = "create" /\ pc[p] = "done" /\ resp[p].status = 201
        /\ bookings = {Row(resp[p].id, req[p].startTime, req[p].endTime)}

\* candidate [S, E) strictly contains row b: S < s and e < E
ContainsRow(b, S, E) == S < b.startTime /\ b.endTime < E

\* row b strictly contains candidate [S, E): s < S and E < e
InsideRow(b, S, E) == b.startTime < S /\ E < b.endTime

\* C11: the conflict query fails to report a conflict when the candidate
\* fully contains an existing booking (S < s and e < E).  Stated for a store
\* whose only scanned row is that booking, of positive duration: the request
\* is then not answered 409.
C11_ContainedRowMissed ==
    \A p \in Procs, b \in bookings :
        ( /\ CreateRejected(p) \/ UpdateRejected(p)
          /\ Scanned(p) = {b}
          /\ Valid(b) )
        => ~ ContainsRow(b, req[p].startTime, req[p].endTime)

\* C11, as amended: the conflict query does report a conflict when the
\* candidate fully contains an existing booking of positive duration (the
\* stored start lies in [S,E)): no creation or update passes the check while
\* such a row is scanned.
C11_ContainedRowReported ==
    \A p \in Procs :
        (CreatePassed(p) \/ UpdatePassed(p)) =>
            ~ \E b \in Scanned(p) :
                  /\ Valid(b)
                  /\ ContainsRow(b, req[p].startTime, req[p].endTime)

\* C11 witness: a creation answered 409 against a store whose only row, of
\* positive duration, lies strictly inside the candidate.
C11_ContainedRowRejected ==
    \E p \in Procs, b \in bookings :
        /\ CreateRejected(p)
        /\ bookings = {b}
        /\ Valid(b)
        /\ ContainsRow(b, req[p].startTime, req[p].endTime)

Degenerate(r) ==
    r.startTime # NoTime /\ r.endTime # NoTime /\ r.startTime >= r.endTime

\* C15: startTime < endTime is not enforced.  A creation or update request
\* with startTime >= endTime is never answered 400, and once its handler has
\* answered 201 or 200 the row with start >= end is stored.
C15_DegenerateNotRejected ==
    \A p \in Procs :
        (Degenerate(req[p]) /\ pc[p] = "done") =>
            /\ resp[p].status # 400
            /\ (req[p].op = "create" /\ resp[p].status = 201) =>
                   Row(resp[p].id, req[p].startTime, req[p].endTime)
                       \in bookings
            /\ (req[p].op = "update" /\ resp[p].status = 200) =>
                   Row(req[p].id, req[p].startTime, req[p].endTime)
                       \in bookings

\* C15 witness: a creation with startTime >= endTime was answered 201 and
\* its row, with start >= end, is stored.
C15_DegenerateStored ==
    \E p \in Procs, b \in bookings :
        /\ req[p].op = "create" /\ pc[p] = "done" /\ resp[p].status = 201
        /\ b.id = resp[p].id
        /\ b.startTime >= b.endTime

\* C17: for a candidate and scanned rows of positive duration, the two
\* range conditions answer as the half-open test does, except for a row that
\* strictly contains the candidate (s < S and E < e), which the query does
\* not match: a request passes the check only if every overlapping row
\* strictly contains the candidate, and is answered 409 only if some
\* overlapping row does not.
C17_SameButInsideRow ==
    \A p \in Procs :
        ( /\ req[p].startTime < req[p].endTime
          /\ \A b \in Scanned(p) : Valid(b) )
        => /\ (CreatePassed(p) \/ UpdatePassed(p)) =>
                  \A b \in Scanned(p) :
                      Overlaps(b, req[p].startTime, req[p].endTime) =>
                          InsideRow(b, req[p].startTime, req[p].endTime)
           /\ (CreateRejected(p) \/ UpdateRejected(p)) =>
                  \E b \in Scanned(p) :
                      /\ Overlaps(b, req[p].startTime, req[p].endTime)
                      /\ ~ InsideRow(b, req[p].startTime, req[p].endTime)

\* C17 witness: a creation of positive duration passed the check although
\* the only stored row, of positive duration, strictly contains it.
C17_InsideRowPassed ==
    \E p \in Procs, b \in bookings :
        /\ CreatePassed(p)
        /\ bookings = {b}
        /\ Valid(b)
        /\ req[p].startTime < req[p].endTime
        /\ InsideRow(b, req[p].startTime, req[p].endTime)

\* C18: the update runs the conflict check only when the request carries
\* both startTime and endTime: an update carrying one of them alone is never
\* answered 409, and once answered 200 the addressed row has the new field.
C18_PartialUpdateUnchecked ==
    \A p \in Procs :
        ( /\ req[p].op = "update" /\ pc[p] = "done"
          /\ (req[p].startTime = NoTime) # (req[p].endTime = NoTime) )
        => /\ resp[p].status # 409
           /\ resp[p].status = 200 =>
                  \E b \in bookings :
                      /\ b.id = req[p].id
                      /\ req[p].startTime # NoTime =>
                             b.startTime = req[p].startTime
                      /\ req[p].endTime # NoTime =>
                             b.endTime = req[p].endTime

\* C18 witness: an update carrying startTime alone was answered 200 and the
\* moved row, of positive duration, now overlaps another row of positive
\* duration that the conflict query would have matched.
C18_MovedOntoAnother ==
    \E p \in Procs, a \in bookings, b \in bookings :
        /\ req[p].op = "update" /\ pc[p] = "done" /\ resp[p].status = 200
        /\ req[p].startTime # NoTime /\ req[p].endTime = NoTime
        /\ a.id = req[p].id /\ b.id # a.id
        /\ Valid(a) /\ Valid(b)
        /\ Overlaps(b, a.startTime, a.endTime)
        /\ ConflictWhere(b, a.startTime, a.endTime)

\* C19: a candidate with startTime >= endTime is never reported as
\* conflicting, whatever the store holds: a request answered 409 by the
\* conflict check has startTime < endTime.
C19_DegenerateNeverConflicts ==
    \A p \in Procs :
        (CreateRejected(p) \/ UpdateRejected(p)) =>
            req[p].startTime < req[p].endTime

\* C19 witness: a creation with startTime >= endTime was answered 201 while
\* its times lie inside a stored row of positive duration.
C19_DegenerateInsideAccepted ==
    \E p \in Procs, b \in bookings :
        /\ req[p].op = "create" /\ pc[p] = "done" /\ resp[p].status = 201
        /\ req[p].startTime >= req[p].endTime
        /\ b.id # resp[p].id
        /\ Valid(b)
        /\ b.startTime < req[p].endTime /\ req[p].startTime < b.endTime

\* the tables of the store
store == <<bookings, bookingsOnUsers, bookingsOnServices, bookingStatus,
           users, userEmail, services>>

\* C13: the conflict check is a pure read.  The steps of a creation or an
\* update up to and including its conflict query (the only steps of a
\* request answered 409) change no booking row, no status and no
\* booking-user or booking-service link.
C13_CheckLeavesStore ==
    [][\A p \in Procs :
          ( \/ pc[p] = "idle" /\ req'[p].op \in {"create", "update"}
            \/ pc[p] = "ucheck"
            \/ resp'[p].status = 409 /\ resp[p].status # 409 )
          => UNCHANGED store]_vars

\* C13 witness: an update was answered 409 and the addressed booking has its
\* user and service links.
C13_RejectedUpdateKeepsLinks ==
    \E p \in Procs :
        /\ UpdateRejected(p)
        /\ UsersOf(req[p].id) # {}
        /\ ServicesOf(req[p].id) # {}

\* C14: one global time axis.  Whether a creation is answered 409 is decided
\* by the start and end times of the stored rows alone: it passes the check
\* only if no row's times match the query and is rejected only if some row's
\* do, whatever the rows' status, users and services.
C14_TimesAloneDecide ==
    \A p \in Procs :
        /\ CreatePassed(p) =>
               ~ \E b \in bookings :
                     ConflictWhere(b, req[p].startTime, req[p].endTime)
        /\ CreateRejected(p) =>
               \E b \in bookings :
                   ConflictWhere(b, req[p].startTime, req[p].endTime)

\* C14 witness: a creation was answered 409 although the only stored row is
\* CANCELLED and shares no user and no service with the request.
C14_CancelledDisjointBlocks ==
    \E p \in Procs, b \in bookings :
        /\ CreateRejected(p)
        /\ bookings = {b}
        /\ Overlaps(b, req[p].startTime, req[p].endTime)
        /\ StatusOf(b.id, "CANCELLED") \in bookingStatus
        /\ UsersOf(b.id) # {} /\ ServicesOf(b.id) # {}
        /\ UsersOf(b.id) \cap body[p].userIds = {}
        /\ ServicesOf(b.id) \cap body[p].serviceIds = {}

\* the service has a row in bookings_on_services
Used(s) == \E l \in bookingsOnServices : l.serviceId = s

Quiescent == \A p \in Procs : pc[p] \in {"idle", "done"}

\* C20: every stored booking has at least one user and at least one service
\* after any sequence of booking create and update requests and user
\* deletions (looked at when no request is in progress).
C20_AtLeastOneUserAndService ==
    Quiescent =>
        \A b \in bookings : UsersOf(b.id) # {} /\ ServicesOf(b.id) # {}

\* the addressed row exists and carries the times of p's update request
RowMoved(p) ==
    /\ req[p].op = "update"
    /\ Row(req[p].id, req[p].startTime, req[p].endTime) \in bookings

\* C21: the update is applied in separate steps without a transaction.
\* Between its deleteMany and its createMany of user links the addressed
\* booking, if still stored, has its new times and no user link, and when
\* the createMany fails the request is answered 500 with the row change and
\* the link deletion left in place.
C21_NoRollback ==
    \A p \in Procs :
        (req[p].op = "update" /\ FindUnique(bookings, req[p].id) # {}) =>
            /\ pc[p] = "uuserscreate" =>
                   RowMoved(p) /\ UsersOf(req[p].id) = {}
            /\ (pc[p] = "done" /\ resp[p].status = 500) =>
                   RowMoved(p) /\ UsersOf(req[p].id) = {}

\* C21 witness: a GET answered while the update was between its deleteMany
\* and its createMany showed the booking with the new times and no user,
\* and the update has since been answered 500, the booking keeping the new
\* times and no user link.
C21_SeenAndLeftWithoutUsers ==
    \E p \in Procs, q \in Procs :
        /\ p # q
        /\ req[p].op = "update" /\ pc[p] = "done" /\ resp[p].status = 500
        /\ RowMoved(p)
        /\ UsersOf(req[p].id) = {}
        /\ req[q].op = "get" /\ pc[q] = "done" /\ resp[q].status = 200
        /\ resp[q].id = req[p].id
        /\ resp[q].startTime = req[p].startTime
        /\ resp[q].endTime = req[p].endTime
        /\ resp[q].users = {}

\* C22: the usage check and the delete of DELETE /services/:id are separate
\* steps.  A delete step whose service row is still there removes it and,
\* by the cascade, every link to it, whatever was linked since the check,
\* touches no booking row and answers 200.
C22_DeleteAfterStaleCheck ==
    [][\A p \in Procs :
          (pc[p] = "sdelete" /\ pc'[p] # "sdelete"
           /\ req[p].id \in services) =>
              /\ services' = services \ {req[p].id}
              /\ bookingsOnServices' =
                     {l \in bookingsOnServices : l.serviceId # req[p].id}
              /\ bookings' = bookings
              /\ resp'[p].status = 200]_vars

\* C22 witness: a creation naming the service was answered 201, the delete
\* of that service was answered 200, and the stored booking has no link to
\* the service any more.
C22_BookingLostService ==
    \E p \in Procs, q \in Procs :
        /\ req[p].op = "create" /\ pc[p] = "done" /\ resp[p].status = 201
        /\ req[q].op = "deleteService" /\ pc[q] = "done"
        /\ resp[q].status = 200
        /\ req[q].id \in body[p].serviceIds
        /\ FindUnique(bookings, resp[p].id) # {}
        /\ req[q].id \notin ServicesOf(resp[p].id)

\* no two rows of users carry the same email
UniqueEmails ==
    \A r1 \in userEmail, r2 \in userEmail :
        r1.email = r2.email => r1.id = r2.id

\* C23: no two users ever share an email.  Every step leaves the emails
\* distinct; a creation whose email is held by a user at its existence
\* check, and an email change whose new email is held by a user at its
\* check, are answered 400 and change nothing; of requests that interleave
\* past the check with one email, the index lets at most one be stored.
C23_EmailsStayUnique ==
    [][/\ UniqueEmails'
       /\ \A p \in Procs :
              /\ ( /\ pc[p] = "idle" /\ req'[p].op = "createUser"
                   /\ \E r \in userEmail : r.email = req'[p].email )
                 => /\ resp'[p].status = 400
                    /\ UNCHANGED <<users, userEmail>>
              /\ ( /\ pc[p] = "useremail" /\ pc'[p] # "useremail"
                   /\ \E r \in userEmail : r.email = req[p].email )
                 => /\ resp'[p].status = 400
                    /\ UNCHANGED <<users, userEmail>>]_vars

\* C23 witness: two creations with one email both passed the existence
\* check; one was answered 201, the other 500, and one row has the email.
C23_OneOfTwoStored ==
    \E p \in Procs, q \in Procs :
        /\ req[p].op = "createUser" /\ req[q].op = "createUser"
        /\ req[p].email = req[q].email
        /\ pc[p] = "done" /\ resp[p].status = 201
        /\ pc[q] = "done" /\ resp[q].status = 500
        /\ Cardinality({r \in userEmail : r.email = req[p].email}) = 1

\* C24: a refresh is answered with a new access token only when the token
\* presented is the one stored for its user; a logout leaves no row with
\* the token it names, and only the storing step of a login puts a token in
\* a row, so after the logout every refresh with that token is answered 403
\* until a login stores a token again; a refresh never changes a stored
\* refresh token.
C24_RefreshNeedsStoredToken ==
    [][/\ \A p \in Procs :
              /\ (pc[p] = "idle" /\ req'[p].op = "refresh") =>
                     /\ refreshToken' = refreshToken
                     /\ resp'[p].status \in {200, 403}
                     /\ resp'[p].status = 200 <=>
                            \E r \in refreshToken :
                                /\ r.id = req'[p].token.id
                                /\ r.token = req'[p].token
              /\ (pc[p] = "idle" /\ req'[p].op = "logout") =>
                     ~ \E r \in refreshToken' : r.token = req'[p].token
       /\ (refreshToken' \ refreshToken # {}) =>
              \E p \in Procs :
                  /\ req[p].op = "login" /\ pc[p] = "loginstore"
                  /\ pc'[p] = "done"]_vars

\* C24 witness: a token that a login had stored was named in a logout, and
\* a refresh presenting it afterwards was answered 403, no login having
\* stored a token for the user since.
C24_RefusedAfterLogout ==
    \E p \in Procs, q \in Procs :
        /\ req[p].op = "logout" /\ pc[p] = "done" /\ resp[p].status = 200
        /\ req[q].op = "refresh" /\ pc[q] = "done" /\ resp[q].status = 403
        /\ req[q].token = req[p].token
        /\ req[p].token \in issued
        /\ ~ \E r \in refreshToken : r.id = req[p].token.id

\* C25: one invocation of apiRequest sends the original request at most twice
\* and the refresh request at most once, and it terminates. A refresh is only
\* sent after a first response of 403 'Invalid or expired token'; when it
\* succeeds the new token is stored and the one retry carries it; a retry is
\* sent in no other case; a failing response to the retry is thrown, with no
\* further request.
C25_TwoSendsOneRefresh ==
    /\ [](\A c \in Calls : call[c].sent <= 2 /\ call[c].refreshes <= 1)
    /\ [][\A c \in Calls :
              /\ (call[c].refreshData = NoItem /\ call'[c].refreshData # NoItem)
                     => /\ call[c].response = Expired
                        /\ call[c].sent = 1 /\ call[c].refreshes = 1
                        /\ localStorage'.token = call'[c].refreshData
                        /\ call'[c].sent = 2
                        /\ call'[c].authorization = call'[c].refreshData
              /\ (call[c].sent >= 1 /\ call'[c].sent > call[c].sent)
                     => call[c].refreshData = NoItem
                            /\ call'[c].refreshData # NoItem
              /\ (call'[c].refreshes > call[c].refreshes)
                     => /\ call[c].response = Expired
                        /\ call[c].sent = 1 /\ call[c].refreshes = 0
              /\ (/\ call[c].sent = 2 /\ call[c].pc = "settle"
                  /\ call[c].response.status # 200
                  /\ call'[c] # call[c])
                     => /\ call'[c].pc = "done"
                        /\ call'[c].outcome = "thrown"
                        /\ call'[c].sent = 2 /\ call'[c].refreshes = 1]_vars
    /\ \A c \in Calls : (call[c].pc # "idle") ~> (call[c].pc = "done")

\* C25 witness: an invocation has ended by throwing after its retry was
\* answered with a 500, having sent one refresh
C25_FailedRetryThrown ==
    \E c \in Calls :
        /\ call[c].pc = "done" /\ call[c].outcome = "thrown"
        /\ call[c].sent = 2 /\ call[c].refreshes = 1
        /\ call[c].response.status = 500
        /\ call[c].refreshData # NoItem

====
